---- MODULE Spec2Model ----
(***************************************************************************)
(* Titanic-Data-Chat-App (src/app.py): a Streamlit script that, on the     *)
(* landing page's button, provisions a Pinecone index, ingests one PDF     *)
(* chunk by chunk, and then answers queries by retrieval + chat            *)
(* completion.  A script run is a sequence of steps (pc); every external   *)
(* call may raise, which ends the run (Streamlit shows the exception and   *)
(* keeps st.session_state as it was at that point).                        *)
(***************************************************************************)
EXTENDS Integers, Sequences, FiniteSets, TLC

VARIABLES
    ss,                 \* st.session_state: page, index_initialized, pinecone_index, embeddings
    pc,                 \* position of the running script ("idle": no run in progress)
    index_name,         \* the name initialize_pinecone returned in this run ("None" before)
    chunks,             \* local `chunks` of the start handler
    i,                  \* loop variable of generate_and_upload_embeddings
    embedding,          \* local `embedding` of the loop body
    user_query,         \* value of the text input in this run
    relevant_sections,  \* local of get_result
    final_answer,       \* what the run displays ("None": nothing)
    error,              \* the call that raised in the last run ("none": no exception)
    indexes,            \* service side: names of the existing indexes
    entries,            \* service side: the records of index "titanic"
    session,            \* history: number of the current session
    startCount,         \* history: start-button clicks of this session
    queryCount,         \* history: non-empty queries of this session
    passesStarted,      \* history: ingestion passes begun in this session
    passesCompleted,    \* history: ingestion passes that ran to line 65 in this session
    passLog,            \* history: the external calls of the latest ingestion pass
    failedAt,           \* history: chunk whose embed/upsert raised in the latest pass (-1: none)
    completions,        \* history: the index's ids and size after each complete pass (all sessions)
    createCalls,        \* history: create_index calls issued (all sessions)
    createFailures,     \* history: create_index calls that raised
    queryLog            \* history: the external calls of the latest query

vars == <<ss, pc, index_name, chunks, i, embedding, user_query, relevant_sections,
          final_answer, error, indexes, entries, session, startCount, queryCount,
          passesStarted, passesCompleted, passLog, failedAt, completions,
          createCalls, createFailures, queryLog>>

----------------------------------------------------------------------------
(* Bounds of the model *)

NumChunks == 3      \* chunks the splitter cuts the document into
MaxSessions == 2    \* sessions (browser reloads) explored
MaxStarts == 2      \* start-button clicks per session
MaxQueries == 2     \* non-empty queries per session

(* Program constants *)

TOP_K == 5
INDEX_NAME == "titanic"
NO_SECTIONS == "No relevant sections found."
Queries == {"", "What is the survival rate?"}
LLMOutputs == {"llm-answer"}

----------------------------------------------------------------------------
(* Pure helpers *)

Range(s) == {s[k] : k \in DOMAIN s}

Min(a, b) == IF a < b THEN a ELSE b

DigitChars == <<"0", "1", "2", "3", "4", "5", "6", "7", "8", "9">>

\* str(n) for n >= 0, as a sequence of characters
RECURSIVE Dec(_)
Dec(n) == IF n < 10 THEN <<DigitChars[n + 1]>>
          ELSE Dec(n \div 10) \o <<DigitChars[(n % 10) + 1]>>

\* mutant: the id counts from the index's current size (ids never collide)
ChunkId_Appending(k) == <<"c", "h", "u", "n", "k", "-">> \o Dec(k + Cardinality(entries))

\* f"chunk-{i}"
ChunkId(k) == <<"c", "h", "u", "n", "k", "-">> \o Dec(k)

\* text_splitter.split_documents(docs): the chunk texts, in order
chunk_data == [k \in 1..NumChunks |-> <<"text", k>>]

\* embeddings.embed_query(text)
Embed(text) == <<"vec", text>>

\* mutant: enumerate(chunks, 1)
Metadata_OffByOne(k, text) == [chunk_id |-> k + 1, text |-> text]

\* metadata = {"chunk_id": i, "text": chunk_text}
Metadata(k, text) == [chunk_id |-> k, text |-> text]

\* the argument of index.upsert: vectors=[(f"chunk-{i}", embedding, metadata)]
UpsertVectors(k, text, emb) ==
    <<[id |-> ChunkId(k), values |-> emb, metadata |-> Metadata(k, text)]>>

\* index.upsert: insert, or overwrite the record with the same id
Upsert(store, vectors) ==
    {e \in store : \A v \in Range(vectors) : v.id # e.id} \cup Range(vectors)

\* index.query(top_k=k): any ranking of at most k distinct records
QueryResponses(store, k) ==
    {m \in UNION {[1..n -> store] : n \in 0..Min(k, Cardinality(store))} :
        \A a, b \in DOMAIN m : a # b => m[a] # m[b]}

\* lines 71-78: matches -> [{"Text", "Page"}]
Sections(matches) ==
    [k \in DOMAIN matches |->
        [Text |-> matches[k].metadata.text, Page |-> matches[k].metadata.chunk_id]]

Ids(store) == {e.id : e \in store}

----------------------------------------------------------------------------
(* Session state *)

EmptyState == [k \in {} |-> FALSE]

\* mutant: the `if "page" not in st.session_state` guard is missing
HasPage_Never(s) == FALSE

HasPage(s) == "page" \in DOMAIN s

\* lines 110-118
SessionDefaults(s) ==
    LET s1 == IF HasPage(s) THEN s
              ELSE ("page" :> "first_page") @@ ("index_initialized" :> FALSE) @@
                   [k \in (DOMAIN s) \ {"page", "index_initialized"} |-> s[k]]
        s2 == IF "pinecone_index" \in DOMAIN s1 THEN s1
              ELSE s1 @@ ("pinecone_index" :> "None")
    IN  IF "embeddings" \in DOMAIN s2 THEN s2
        ELSE s2 @@ ("embeddings" :> "all-mpnet-base-v2")

page == ss["page"]
index_initialized == ss["index_initialized"]
pinecone_index == ss["pinecone_index"]

----------------------------------------------------------------------------
(* Initial state: a fresh service, and a session whose first run has       *)
(* rendered the landing page.                                              *)

Init ==
    /\ ss = SessionDefaults(EmptyState)
    /\ pc = "idle"
    /\ index_name = "None"
    /\ chunks = <<>>
    /\ i = 0
    /\ embedding = <<>>
    /\ user_query = ""
    /\ relevant_sections = <<>>
    /\ final_answer = "None"
    /\ error = "none"
    /\ indexes = {}
    /\ entries = {}
    /\ session = 1
    /\ startCount = 0
    /\ queryCount = 0
    /\ passesStarted = 0
    /\ passesCompleted = 0
    /\ passLog = <<>>
    /\ failedAt = -1
    /\ completions = <<>>
    /\ createCalls = 0
    /\ createFailures = 0
    /\ queryLog = <<>>

serviceVars == <<indexes, entries, createCalls, createFailures>>
ingestVars == <<passesStarted, passesCompleted, passLog, failedAt, completions>>
ingestLocals == <<index_name, chunks, i, embedding>>
queryLocals == <<user_query, relevant_sections, final_answer, queryLog>>
sessionCounters == <<session, startCount, queryCount>>

LogEntry(call, k, vectors) == [call |-> call, chunk |-> k, vectors |-> vectors]

----------------------------------------------------------------------------
(* A script run begins (lines 110-162 up to the first external call)       *)

\* mutant: the handler runs on every render of the landing page
ButtonFires_Always(clicked) == TRUE

\* line 136: `if st.button(...)`
ButtonFires(clicked) == clicked

\* mutant: the `if user_query:` test is missing
QueryGiven_Always(q) == TRUE

\* line 162: `if user_query:`
QueryGiven(q) == q # ""

\* The user's input to the run: a click on the landing page's button, or a
\* value of the chatbot page's text input.  Only the widgets of the page
\* that is rendered can carry input.
ScriptRun(clicked, q) ==
    /\ pc = "idle"
    /\ clicked => startCount < MaxStarts
    /\ q # "" => queryCount < MaxQueries
    /\ LET s1 == SessionDefaults(ss) IN
        /\ ss' = s1
        /\ IF s1["page"] = "first_page"
           THEN /\ q = ""
                /\ pc' = IF ButtonFires(clicked) THEN "list_indexes" ELSE "idle"
           ELSE /\ clicked = FALSE
                /\ pc' = IF QueryGiven(q) THEN "q_embed" ELSE "idle"
    /\ startCount' = IF clicked THEN startCount + 1 ELSE startCount
    /\ queryCount' = IF q # "" THEN queryCount + 1 ELSE queryCount
    /\ user_query' = q
    /\ index_name' = "None"
    /\ chunks' = <<>>
    /\ i' = 0
    /\ embedding' = <<>>
    /\ relevant_sections' = <<>>
    /\ final_answer' = "None"
    /\ error' = "none"
    /\ queryLog' = <<>>
    /\ UNCHANGED <<serviceVars, ingestVars, session>>

\* An exception leaves the script: the run ends, session state stays as it is
Raise(call) ==
    /\ pc' = "idle"
    /\ error' = call

----------------------------------------------------------------------------
(* initialize_pinecone, lines 19-37, and pc.Index, line 139                *)

\* mutant: the existence test is dropped and the index is always created
IndexAbsent_Always(names) == TRUE

\* line 23
IndexAbsent(names) == INDEX_NAME \notin names

ListIndexes ==
    /\ pc = "list_indexes"
    /\ IF IndexAbsent(indexes)
       THEN pc' = "create_index" /\ UNCHANGED index_name
       ELSE pc' = "get_handle" /\ index_name' = INDEX_NAME
    /\ UNCHANGED <<ss, chunks, i, embedding, queryLocals, error, serviceVars,
                   ingestVars, sessionCounters>>

ListIndexesFails ==
    /\ pc = "list_indexes"
    /\ Raise("list_indexes")
    /\ UNCHANGED <<ss, ingestLocals, queryLocals, serviceVars, ingestVars, sessionCounters>>

\* the service refuses to create a name that exists
CreateIndex ==
    /\ pc = "create_index"
    /\ INDEX_NAME \notin indexes
    /\ createCalls' = createCalls + 1
    /\ indexes' = indexes \cup {INDEX_NAME}
    /\ index_name' = INDEX_NAME
    /\ pc' = "get_handle"
    /\ UNCHANGED <<ss, chunks, i, embedding, queryLocals, error, entries, createFailures,
                   ingestVars, sessionCounters>>

\* the call raises; the service may or may not have created the index
CreateIndexFails ==
    /\ pc = "create_index"
    /\ createCalls' = createCalls + 1
    /\ createFailures' = createFailures + 1
    /\ indexes' \in {indexes, indexes \cup {INDEX_NAME}}
    /\ Raise("create_index")
    /\ UNCHANGED <<ss, ingestLocals, queryLocals, entries, ingestVars, sessionCounters>>

\* line 139
GetHandle ==
    /\ pc = "get_handle"
    /\ ss' = [ss EXCEPT !["pinecone_index"] = index_name]
    /\ pc' = "check_initialized"
    /\ UNCHANGED <<ingestLocals, queryLocals, error, serviceVars, ingestVars,
                   sessionCounters>>

GetHandleFails ==
    /\ pc = "get_handle"
    /\ Raise("Index")
    /\ UNCHANGED <<ss, ingestLocals, queryLocals, serviceVars, ingestVars, sessionCounters>>

----------------------------------------------------------------------------
(* The start handler's ingestion, lines 142-148 and 57-65                  *)

\* mutant: the flag is set before the ingestion instead of after it
CheckInitialized_MarksFirst ==
    /\ pc = "check_initialized"
    /\ pc' = IF ~index_initialized THEN "read" ELSE "set_page"
    /\ ss' = [ss EXCEPT !["index_initialized"] = TRUE]
    /\ UNCHANGED <<ingestLocals, queryLocals, error, serviceVars, ingestVars,
                   sessionCounters>>

\* line 142
CheckInitialized ==
    /\ pc = "check_initialized"
    /\ pc' = IF ~index_initialized THEN "read" ELSE "set_page"
    /\ UNCHANGED <<ss, ingestLocals, queryLocals, error, serviceVars, ingestVars,
                   sessionCounters>>

\* lines 143-144 and 58: read, chunk, build the embedder
ReadDocument ==
    /\ pc = "read"
    /\ passesStarted' = passesStarted + 1
    /\ passLog' = <<LogEntry("read", -1, <<>>)>>
    /\ failedAt' = -1
    /\ chunks' = chunk_data
    /\ i' = 0
    /\ pc' = IF Len(chunk_data) = 0 THEN "uploaded" ELSE "embed"
    /\ UNCHANGED <<ss, index_name, embedding, queryLocals, error, serviceVars,
                   passesCompleted, completions, sessionCounters>>

ReadDocumentFails ==
    /\ pc = "read"
    /\ passesStarted' = passesStarted + 1
    /\ passLog' = <<LogEntry("read", -1, <<>>)>>
    /\ failedAt' = -1
    /\ Raise("read")
    /\ UNCHANGED <<ss, ingestLocals, queryLocals, serviceVars, passesCompleted,
                   completions, sessionCounters>>

\* mutant: the loop body catches the exception and goes on with the next chunk
ChunkErrorOutcome_Continue(k) ==
    [pc |-> IF k + 1 < Len(chunks) THEN "embed" ELSE "uploaded", i |-> k + 1]

\* lines 59-64 hold no try/except: the exception ends the pass
ChunkErrorOutcome(k) == [pc |-> "idle", i |-> k]

\* line 62
EmbedChunk ==
    /\ pc = "embed"
    /\ embedding' = Embed(chunks[i + 1])
    /\ passLog' = Append(passLog, LogEntry("embed", i, <<>>))
    /\ pc' = "upsert"
    /\ UNCHANGED <<ss, index_name, chunks, i, queryLocals, error, serviceVars,
                   passesStarted, passesCompleted, failedAt, completions, sessionCounters>>

EmbedChunkFails ==
    /\ pc = "embed"
    /\ passLog' = Append(passLog, LogEntry("embed", i, <<>>))
    /\ failedAt' = i
    /\ error' = "embed"
    /\ pc' = ChunkErrorOutcome(i).pc
    /\ i' = ChunkErrorOutcome(i).i
    /\ UNCHANGED <<ss, index_name, chunks, embedding, queryLocals, serviceVars,
                   passesStarted, passesCompleted, completions, sessionCounters>>

\* lines 63-64
UpsertChunk ==
    /\ pc = "upsert"
    /\ pinecone_index # "None" /\ INDEX_NAME \in indexes
    /\ LET vectors == UpsertVectors(i, chunks[i + 1], embedding) IN
        /\ entries' = Upsert(entries, vectors)
        /\ passLog' = Append(passLog, LogEntry("upsert", i, vectors))
    /\ i' = i + 1
    /\ pc' = IF i + 1 < Len(chunks) THEN "embed" ELSE "uploaded"
    /\ UNCHANGED <<ss, index_name, chunks, embedding, queryLocals, error, indexes,
                   createCalls, createFailures, passesStarted, passesCompleted, failedAt,
                   completions, sessionCounters>>

\* the call raises; the service may or may not have stored the record
UpsertChunkFails ==
    /\ pc = "upsert"
    /\ LET vectors == UpsertVectors(i, chunks[i + 1], embedding) IN
        /\ entries' \in IF INDEX_NAME \in indexes
                        THEN {entries, Upsert(entries, vectors)} ELSE {entries}
        /\ passLog' = Append(passLog, LogEntry("upsert", i, vectors))
    /\ failedAt' = i
    /\ error' = "upsert"
    /\ pc' = ChunkErrorOutcome(i).pc
    /\ i' = ChunkErrorOutcome(i).i
    /\ UNCHANGED <<ss, index_name, chunks, embedding, queryLocals, indexes,
                   createCalls, createFailures, passesStarted, passesCompleted,
                   completions, sessionCounters>>

\* mutant: the flag is never set
MarkInitialized_Forgets ==
    /\ pc = "uploaded"
    /\ passesCompleted' = passesCompleted + 1
    /\ completions' = Append(completions, [ids |-> Ids(entries), count |-> Cardinality(entries)])
    /\ pc' = "set_page"
    /\ UNCHANGED <<ss, ingestLocals, queryLocals, error, serviceVars, passesStarted,
                   passLog, failedAt, sessionCounters>>

\* lines 65 and 146: the loop is over
MarkInitialized ==
    /\ pc = "uploaded"
    /\ passesCompleted' = passesCompleted + 1
    /\ completions' = Append(completions, [ids |-> Ids(entries), count |-> Cardinality(entries)])
    /\ ss' = [ss EXCEPT !["index_initialized"] = TRUE]
    /\ pc' = "set_page"
    /\ UNCHANGED <<ingestLocals, queryLocals, error, serviceVars, passesStarted,
                   passLog, failedAt, sessionCounters>>

\* line 148, then lines 150-162: the chatbot page renders with an empty input
SetPage ==
    /\ pc = "set_page"
    /\ ss' = [ss EXCEPT !["page"] = "chatbot"]
    /\ pc' = "idle"
    /\ UNCHANGED <<ingestLocals, queryLocals, error, serviceVars, ingestVars,
                   sessionCounters>>

----------------------------------------------------------------------------
(* get_result, lines 103-107, with retrieve_related_sections (68-78) and   *)
(* generate_response (81-100)                                              *)

\* mutant: the empty case is not short-circuited
NoSections_Never(sections) == FALSE

\* line 105: `if not relevant_sections`
NoSections(sections) == sections = <<>>

\* line 69
EmbedQuery ==
    /\ pc = "q_embed"
    /\ queryLog' = Append(queryLog, "embed_query")
    /\ pc' = "q_query"
    /\ UNCHANGED <<ss, ingestLocals, user_query, relevant_sections, final_answer, error,
                   serviceVars, ingestVars, sessionCounters>>

EmbedQueryFails ==
    /\ pc = "q_embed"
    /\ queryLog' = Append(queryLog, "embed_query")
    /\ Raise("embed_query")
    /\ UNCHANGED <<ss, ingestLocals, user_query, relevant_sections, final_answer,
                   serviceVars, ingestVars, sessionCounters>>

\* lines 70-78 and 104-106
QueryIndex ==
    /\ pc = "q_query"
    /\ pinecone_index # "None" /\ INDEX_NAME \in indexes
    /\ \E matches \in QueryResponses(entries, TOP_K) :
        /\ relevant_sections' = Sections(matches)
        /\ IF NoSections(Sections(matches))
           THEN final_answer' = NO_SECTIONS /\ pc' = "idle"
           ELSE final_answer' = final_answer /\ pc' = "q_complete"
    /\ queryLog' = Append(queryLog, "index_query")
    /\ UNCHANGED <<ss, ingestLocals, user_query, error, serviceVars, ingestVars,
                   sessionCounters>>

QueryIndexFails ==
    /\ pc = "q_query"
    /\ queryLog' = Append(queryLog, "index_query")
    /\ Raise("index_query")
    /\ UNCHANGED <<ss, ingestLocals, user_query, relevant_sections, final_answer,
                   serviceVars, ingestVars, sessionCounters>>

\* lines 82-100 and 107
GenerateResponse ==
    /\ pc = "q_complete"
    /\ queryLog' = Append(queryLog, "completion")
    /\ final_answer' \in LLMOutputs
    /\ pc' = "idle"
    /\ UNCHANGED <<ss, ingestLocals, user_query, relevant_sections, error, serviceVars,
                   ingestVars, sessionCounters>>

GenerateResponseFails ==
    /\ pc = "q_complete"
    /\ queryLog' = Append(queryLog, "completion")
    /\ Raise("completion")
    /\ UNCHANGED <<ss, ingestLocals, user_query, relevant_sections, final_answer,
                   serviceVars, ingestVars, sessionCounters>>

----------------------------------------------------------------------------
(* A new session (a reload of the page): st.session_state starts empty and *)
(* lines 110-118 fill in the defaults; the service keeps its state.        *)

NewSession ==
    /\ pc = "idle"
    /\ session < MaxSessions
    /\ session' = session + 1
    /\ ss' = SessionDefaults(EmptyState)
    /\ startCount' = 0
    /\ queryCount' = 0
    /\ passesStarted' = 0
    /\ passesCompleted' = 0
    /\ passLog' = <<>>
    /\ failedAt' = -1
    /\ index_name' = "None"
    /\ chunks' = <<>>
    /\ i' = 0
    /\ embedding' = <<>>
    /\ user_query' = ""
    /\ relevant_sections' = <<>>
    /\ final_answer' = "None"
    /\ error' = "none"
    /\ queryLog' = <<>>
    /\ UNCHANGED <<pc, serviceVars, completions>>

----------------------------------------------------------------------------

Next ==
    \/ \E clicked \in BOOLEAN, q \in Queries : ScriptRun(clicked, q)
    \/ ListIndexes
    \/ ListIndexesFails
    \/ CreateIndex
    \/ CreateIndexFails
    \/ GetHandle
    \/ GetHandleFails
    \/ CheckInitialized
    \/ ReadDocument
    \/ ReadDocumentFails
    \/ EmbedChunk
    \/ EmbedChunkFails
    \/ UpsertChunk
    \/ UpsertChunkFails
    \/ MarkInitialized
    \/ SetPage
    \/ EmbedQuery
    \/ EmbedQueryFails
    \/ QueryIndex
    \/ QueryIndexFails
    \/ GenerateResponse
    \/ GenerateResponseFails
    \/ NewSession

Spec == Init /\ [][Next]_vars

----------------------------------------------------------------------------
(* Properties *)

StartHandlerPcs == {"list_indexes", "create_index", "get_handle", "check_initialized",
                    "read", "embed", "upsert", "uploaded", "set_page"}
IngestPcs == {"read", "embed", "upsert", "uploaded"}
QueryPcs == {"q_embed", "q_query", "q_complete"}
StartErrors == {"list_indexes", "create_index", "Index", "read", "embed", "upsert"}

Count(log, call) == Cardinality({k \in DOMAIN log : log[k] = call})

\* the id the specification gives chunk k (k < 10), written out
ExpectedId(k) == <<"c", "h", "u", "n", "k", "-", DigitChars[k + 1]>>

\* the calls a pass over the whole document makes, in the specified order
ExpectedCall(n) ==
    IF n = 1 THEN [call |-> "read", chunk |-> -1, vectors |-> <<>>]
    ELSE LET k == (n - 2) \div 2 IN
         IF n % 2 = 0 THEN [call |-> "embed", chunk |-> k, vectors |-> <<>>]
         ELSE [call |-> "upsert", chunk |-> k,
               vectors |-> <<[id |-> ExpectedId(k), values |-> <<"vec", <<"text", k + 1>>>>,
                              metadata |-> [chunk_id |-> k, text |-> <<"text", k + 1>>]]>>]

\* C1 as stated: in a session, no ingestion call is made before the first start
\* action; after one start action exactly one ingestion pass has occurred,
\* however many queries follow; and no ingestion step runs while
\* index_initialized is true.
C1_ExactlyOnePassAfterOneStart ==
    /\ startCount = 0 => passesStarted = 0 /\ passLog = <<>> /\ pc \notin IngestPcs
    /\ (startCount = 1 /\ pc = "idle") => passesStarted = 1 /\ passesCompleted = 1
    /\ pc \in {"read", "embed", "upsert"} => ~index_initialized

\* C1 amended: in a session, no ingestion call is made before the first start
\* action; a pass begins only in a start action and at most one pass completes;
\* after one start action that ran to line 148 (the page is chatbot) exactly one
\* pass has begun and completed, however many queries follow, while one start
\* action that raised leaves no complete pass; and no ingestion step runs while
\* index_initialized is true.
C1_IngestOncePerSession ==
    /\ startCount = 0 => passesStarted = 0 /\ passLog = <<>> /\ pc \notin IngestPcs
    /\ passesStarted <= startCount
    /\ passesCompleted <= 1
    /\ (startCount = 1 /\ page = "chatbot") => passesStarted = 1 /\ passesCompleted = 1
    /\ (startCount = 1 /\ pc = "idle" /\ page = "first_page") => passesCompleted = 0
    /\ pc \in {"read", "embed", "upsert"} => ~index_initialized

C1_Witness ==
    /\ pc = "idle" /\ page = "chatbot"
    /\ startCount = 1 /\ queryCount = MaxQueries
    /\ passesStarted = 1 /\ passesCompleted = 1

Retrieved == Len(queryLog) >= 2 /\ queryLog[2] = "index_query" /\ error # "index_query"

\* C2: when retrieval returns no sections, get_result returns exactly
\* "No relevant sections found." and makes no completion call; when it returns
\* some, the completion service is called exactly once.
C2_EmptyRetrievalShortCircuits ==
    Retrieved =>
        IF relevant_sections = <<>>
        THEN /\ pc = "idle"
             /\ final_answer = "No relevant sections found."
             /\ Count(queryLog, "completion") = 0
        ELSE \/ pc = "q_complete" /\ Count(queryLog, "completion") = 0
             \/ pc = "idle" /\ Count(queryLog, "completion") = 1

C2_Witness ==
    /\ Retrieved /\ relevant_sections = <<>> /\ pc = "idle"
    /\ entries # {} /\ final_answer = NO_SECTIONS

\* C3 as stated: create_index is issued only when "titanic" is absent from the
\* list, the provisioner returns the name "titanic", and at most one
\* create-call is ever issued.
C3_AtMostOneCreateCall ==
    /\ pc = "create_index" => "titanic" \notin indexes
    /\ index_name \in {"None", "titanic"}
    /\ createCalls <= 1

\* C3 amended: create_index is issued only when "titanic" is absent from the
\* list, the provisioner returns the name "titanic", at most one create-call
\* succeeds, and every create-call beyond the first follows a create-call that
\* raised.
C3_AtMostOneCreateSucceeds ==
    /\ pc = "create_index" => "titanic" \notin indexes
    /\ index_name \in {"None", "titanic"}
    /\ pc = "get_handle" => index_name = "titanic" /\ "titanic" \in indexes
    /\ createCalls - createFailures <= 1
    /\ createCalls <= 1 + createFailures

C3_Witness ==
    /\ session = 2 /\ pc = "get_handle" /\ index_name = "titanic"
    /\ createCalls = 1 /\ createFailures = 0

\* C4: every complete ingestion pass leaves the ids chunk-0..chunk-(n-1) in the
\* index, one record per id; a second complete pass leaves the set of ids and
\* the number of records as the first left them.
C4_ReingestIdempotent ==
    \A n \in DOMAIN completions :
        /\ completions[n].ids = {ExpectedId(k) : k \in 0..(NumChunks - 1)}
        /\ completions[n].count = NumChunks
        /\ n > 1 => /\ completions[n].ids = completions[n - 1].ids
                    /\ completions[n].count = completions[n - 1].count

C4_Witness == Len(completions) = 2 /\ pc = "set_page"

\* C5: a session starts on the landing page; within a session the page changes
\* only from landing to chatbot, at line 148 of a start action; once chatbot it
\* stays chatbot.
C5_ChatbotTerminal ==
    /\ page = "first_page"
    /\ [][/\ session' # session => page' = "first_page"
          /\ (session' = session /\ page' # page) =>
                /\ page = "first_page" /\ page' = "chatbot"
                /\ pc = "set_page" /\ startCount >= 1]_vars

C5_Witness ==
    /\ page = "chatbot" /\ pc = "idle" /\ queryCount = MaxQueries /\ error = "completion"

\* C6: on the chatbot page every step of a run leaves st.session_state and the
\* vector index as they are and issues no create, read, embed-chunk or upsert
\* call; a run with an empty input calls neither retrieval nor generation.
C6_QueryFrame ==
    /\ [][(page = "chatbot" /\ session' = session) =>
            /\ ss' = ss
            /\ entries' = entries /\ indexes' = indexes
            /\ createCalls' = createCalls
            /\ passLog' = passLog /\ passesStarted' = passesStarted]_vars
    /\ [](user_query = "" => queryLog = <<>> /\ pc \notin QueryPcs)

C6_Witness ==
    /\ page = "chatbot" /\ pc = "idle" /\ user_query # ""
    /\ final_answer \in LLMOutputs /\ queryCount = MaxQueries

\* C7: after the embed or upsert of chunk i raised, the pass is over: no call of
\* the pass concerns a chunk after i, no call was repeated, and the records of
\* chunk-0..chunk-(i-1) are in the index.
C7_ChunkFailureAborts ==
    failedAt >= 0 =>
        /\ pc \notin {"embed", "upsert", "uploaded"}
        /\ \A n \in DOMAIN passLog : passLog[n].chunk <= failedAt
        /\ Len(passLog) \in {2 + 2 * failedAt, 3 + 2 * failedAt}
        /\ \A n \in DOMAIN passLog : passLog[n] = ExpectedCall(n)
        /\ \A j \in 0..(failedAt - 1) :
              \E e \in entries : e.id = ExpectedId(j) /\ e.metadata.chunk_id = j

C7_Witness ==
    /\ failedAt = 1 /\ pc = "idle" /\ error = "embed"
    /\ NumChunks > 2 /\ Cardinality(entries) = 1

\* C8: the calls of a pass are read, then for chunk 0, 1, ... in turn its embed
\* followed by its upsert; every upsert carries exactly one entry, with id
\* "chunk-i" and metadata chunk_id = i.
C8_SequentialIngestion ==
    /\ Len(passLog) <= 1 + 2 * NumChunks
    /\ \A n \in DOMAIN passLog : passLog[n] = ExpectedCall(n)
    /\ pc = "embed" => Len(passLog) = 1 + 2 * i
    /\ pc = "upsert" => Len(passLog) = 2 + 2 * i /\ embedding = <<"vec", <<"text", i + 1>>>>
    /\ pc = "uploaded" => Len(passLog) = 1 + 2 * NumChunks /\ i = NumChunks

C8_Witness == pc = "uploaded" /\ Len(passLog) = 1 + 2 * NumChunks /\ NumChunks > 1

\* C9: between runs, page = chatbot implies index_initialized and a non-null
\* index handle; every step of a query runs with a non-null handle, after a
\* complete ingestion pass of the session.
C9_ChatbotImpliesInitialized ==
    /\ (pc = "idle" /\ page = "chatbot") => index_initialized /\ pinecone_index # "None"
    /\ pc \in QueryPcs =>
          /\ pinecone_index = "titanic"
          /\ index_initialized
          /\ passesCompleted >= 1

C9_Witness == pc = "q_query" /\ passesCompleted = 1 /\ queryCount = MaxQueries

\* C10: a run of the start handler that raised leaves page = landing and
\* index_initialized = false; the next start action goes through the
\* provisioner again and starts its pass at chunk 0; index_initialized is true
\* only when every chunk of the latest pass was upserted.
C10_FailedStartRetries ==
    /\ (pc = "idle" /\ error \in StartErrors) => page = "first_page" /\ ~index_initialized
    /\ (pc \in StartHandlerPcs /\ startCount >= 2) => ~index_initialized \/ pc = "set_page"
    /\ (pc \in {"embed", "upsert"} /\ Len(passLog) <= 2) => i = 0
    /\ pc \in IngestPcs \ {"read"} => index_name = "titanic" /\ pinecone_index = "titanic"
    /\ index_initialized =>
          /\ failedAt = -1 /\ passesCompleted >= 1
          /\ \A k \in 0..(NumChunks - 1) :
                /\ \E n \in DOMAIN passLog : passLog[n].call = "upsert" /\ passLog[n].chunk = k
                /\ ExpectedId(k) \in Ids(entries)

C10_Witness ==
    /\ startCount = 2 /\ passesStarted = 2 /\ pc = "upsert" /\ i = 0
    /\ Cardinality(entries) >= 1

====
